---- MODULE Spec2Model ----
(***************************************************************************)
(* Model of the research-assistant backend: keyword retrieval over page    *)
(* chunks (retrieval.py), PDF page extraction (retrieval.py, ingest.py),   *)
(* the SQLite persistence store (database.py) and the remote-model calls   *)
(* (llm_agent.py, ingest.py) and the upload directory (utils.py).           *)
(*                                                                         *)
(* Python strings are sequences of one-character strings, so that          *)
(* str.lower, str.split, str.strip and the substring test `in` are         *)
(* computed character by character.                                        *)
(***************************************************************************)
EXTENDS Integers, Sequences, FiniteSets, TLC

\* ---------------------------------------------------------------- bounds
\* longest chunk / page text drawn as an input
MaxTextLen == 2
\* longest query drawn as an input
MaxQueryLen == 2
\* most chunks in a pool handed to simple_keyword_search
MaxPool == 2
\* largest top_k drawn as an input (top_k ranges over -1..MaxTopK)
MaxTopK == 2
\* longest query and longest chunk text of the token-insertion runs
MaxInsertLen == 3
\* most pages of a PDF file
MaxPages == 2
\* most rows ever inserted into chat_history, and into uploaded_pdfs
MaxRows == 2
NumCallers == 3
\* most entries in the upload directory
MaxFiles == 2
\* most seconds the database clock advances
MaxClock == 1
\* largest age threshold handed to cleanup_old_files, in days
MaxDays == 1

\* characters of chunk texts and of queries: an upper-case letter (so that
\* lower() acts), its lower-case form, and the blank
TextAlphabet == {"A", " "}
QueryAlphabet == {"a", " "}

VARIABLES
    op,            \* the operation that ran last ("init" before any)
    query,         \* simple_keyword_search / retrieve_from_multiple_pdfs: query
    pool,          \* simple_keyword_search: chunks
    top_k,         \* simple_keyword_search / retrieve_from_multiple_pdfs: top_k
    scores,        \* simple_keyword_search: `overlap` of each chunk of the pool, in pool order
    result,        \* the list the operation returned
    base_text,     \* scoring: a chunk's text before a token is inserted
    new_text,      \* scoring: the text after the insertion
    base_score,    \* scoring: `overlap` computed for base_text
    new_score,     \* scoring: `overlap` computed for new_text
    ran,           \* extraction: the functions that have returned
    doc,           \* extraction / ingestion: the PDF file read (path, readable or not, pages)
    extracted,     \* extraction: what extract_text_from_pdf returned
    loaded,        \* extraction: what load_pdf returned
    pdfs,          \* retrieve_from_multiple_pdfs: the PDF files of the `pdfs` rows, in order
    all_chunks,    \* retrieve_from_multiple_pdfs: all_chunks after the extraction loop
    users,         \* table users, in rowid order
    chat_history,  \* table chat_history, in rowid order
    uploaded_pdfs, \* table uploaded_pdfs, in rowid order
    seq,           \* sqlite_sequence: the largest rowid each AUTOINCREMENT table has used
    args,          \* store: the arguments of the call that ran last
    ret,           \* store: how that call ended: the value returned, or the exception raised
    clock,         \* CURRENT_TIMESTAMP: the database's clock, in whole seconds
    write_lock,    \* the connection holding the database's write lock (see Free, Garbage)
    calls,         \* concurrent create_user calls: each caller's arguments, position, locals
    llm_fault,     \* remote model: the step that fails in this call ("none", "construct", "invoke")
    prompt,        \* remote model: the prompt handed to llm.invoke (<<>>: invoke not reached)
    outcome,       \* remote model callers: how the call ended (returned value or raised error)
    upload_dir,    \* ./data/uploads: whether it exists, and its entries in os.listdir order
    sweep          \* cleanup_old_files: time.time() and the `days` of the call that ran last

searchVars == <<query, pool, top_k, scores, result>>
insertVars == <<base_text, new_text, base_score, new_score>>
extractVars == <<ran, doc, extracted, loaded>>
retrieveVars == <<pdfs, all_chunks>>
storeVars == <<users, chat_history, uploaded_pdfs, seq, args, ret, clock, write_lock>>
concVars == <<calls>>
llmVars == <<llm_fault, prompt, outcome>>
cleanupVars == <<upload_dir, sweep>>
vars == <<op, searchVars, insertVars, extractVars, retrieveVars, storeVars, concVars, llmVars,
          cleanupVars>>

\* the variables a run does not use, at rest
SearchIdle ==
    /\ pool = <<>>
    /\ top_k = 0
    /\ scores = <<>>
    /\ result = <<>>

InsertIdle ==
    /\ base_text = <<>>
    /\ new_text = <<>>
    /\ base_score = 0
    /\ new_score = 0

ExtractIdle ==
    /\ ran = {}
    /\ doc = [file_path |-> 0, readable |-> FALSE, pages |-> <<>>]
    /\ extracted = <<>>
    /\ loaded = <<>>

RetrieveIdle ==
    /\ pdfs = <<>>
    /\ all_chunks = <<>>

StoreIdle ==
    /\ users = <<>>
    /\ chat_history = <<>>
    /\ uploaded_pdfs = <<>>
    /\ seq = [users |-> 0, chat_history |-> 0, uploaded_pdfs |-> 0]
    /\ args = <<>>
    /\ ret = [raised |-> "", value |-> <<>>]
    /\ clock = 0
    /\ write_lock = 0

ConcIdle ==
    /\ calls = <<>>

LlmIdle ==
    /\ llm_fault = "none"
    /\ prompt = <<>>
    /\ outcome = [raised |-> "", value |-> <<>>]

CleanupIdle ==
    /\ upload_dir = [exists |-> FALSE, entries |-> <<>>]
    /\ sweep = <<>>

\* what each run leaves alone
SearchFrame == <<insertVars, extractVars, retrieveVars, storeVars, concVars, llmVars, cleanupVars>>
InsertFrame == <<pool, top_k, scores, result, extractVars, retrieveVars, storeVars, concVars, llmVars, cleanupVars>>
ExtractFrame == <<searchVars, insertVars, retrieveVars, storeVars, concVars, llmVars, cleanupVars>>
RetrieveFrame == <<pool, scores, insertVars, extractVars, storeVars, concVars, llmVars, cleanupVars>>

StoreFrame == <<searchVars, insertVars, extractVars, retrieveVars, concVars, llmVars, cleanupVars>>
ConcFrame == <<searchVars, insertVars, extractVars, retrieveVars, chat_history, uploaded_pdfs, args, ret, clock, llmVars, cleanupVars>>
CleanupFrame == <<searchVars, insertVars, extractVars, retrieveVars, storeVars, concVars, llmVars>>
LlmFrame == <<searchVars, insertVars, ran, extracted, loaded, retrieveVars, storeVars, concVars, cleanupVars>>

SearchFrameIdle ==
    InsertIdle /\ ExtractIdle /\ RetrieveIdle /\ StoreIdle /\ ConcIdle /\ LlmIdle /\ CleanupIdle
InsertFrameIdle ==
    SearchIdle /\ ExtractIdle /\ RetrieveIdle /\ StoreIdle /\ ConcIdle /\ LlmIdle /\ CleanupIdle
ExtractFrameIdle ==
    /\ query = <<>>
    /\ SearchIdle /\ InsertIdle /\ RetrieveIdle /\ StoreIdle /\ ConcIdle /\ LlmIdle /\ CleanupIdle
RetrieveFrameIdle ==
    /\ pool = <<>>
    /\ scores = <<>>
    /\ InsertIdle /\ ExtractIdle /\ StoreIdle /\ ConcIdle /\ LlmIdle /\ CleanupIdle
StoreFrameIdle ==
    /\ query = <<>>
    /\ SearchIdle /\ InsertIdle /\ ExtractIdle /\ RetrieveIdle /\ ConcIdle /\ LlmIdle /\ CleanupIdle
ConcFrameIdle ==
    /\ query = <<>>
    /\ chat_history = <<>>
    /\ uploaded_pdfs = <<>>
    /\ args = <<>>
    /\ ret = [raised |-> "", value |-> <<>>]
    /\ clock = 0
    /\ SearchIdle /\ InsertIdle /\ ExtractIdle /\ RetrieveIdle /\ LlmIdle /\ CleanupIdle
CleanupFrameIdle ==
    /\ query = <<>>
    /\ SearchIdle /\ InsertIdle /\ ExtractIdle /\ RetrieveIdle /\ StoreIdle /\ ConcIdle /\ LlmIdle
LlmFrameIdle ==
    /\ query = <<>>
    /\ ran = {}
    /\ extracted = <<>>
    /\ loaded = <<>>
    /\ SearchIdle /\ InsertIdle /\ RetrieveIdle /\ StoreIdle /\ ConcIdle /\ CleanupIdle

\* ------------------------------------------------------ Python primitives
Min(a, b) == IF a <= b THEN a ELSE b
Max(a, b) == IF a >= b THEN a ELSE b

Range(s) == {s[i] : i \in 1..Len(s)}

\* all sequences over `alphabet` of length at most n
StringsUpTo(alphabet, n) == UNION {[1..k -> alphabet] : k \in 0..n}

\* str.lower on one character
LowerChar(c) == IF c = "A" THEN "a" ELSE c

\* str.lower
lower(s) == [i \in 1..Len(s) |-> LowerChar(s[i])]

\* str.isspace on one character
IsSpace(c) == c \in {" ", "\n"}

\* set(s.split()): the maximal runs of non-blank characters
split(s) ==
    {SubSeq(s, i, j) : <<i, j>> \in
        {p \in (1..Len(s)) \X (1..Len(s)) :
            /\ p[1] <= p[2]
            /\ \A k \in p[1]..p[2] : ~IsSpace(s[k])
            /\ (p[1] = 1 \/ IsSpace(s[p[1] - 1]))
            /\ (p[2] = Len(s) \/ IsSpace(s[p[2] + 1]))}}

\* bool(s.strip()): some character is not blank
strip_nonempty(s) == \E i \in 1..Len(s) : ~IsSpace(s[i])

\* sub in s
Contains(sub, s) ==
    \E k \in 0..(Len(s) - Len(sub)) : SubSeq(s, k + 1, k + Len(sub)) = sub

\* s[:k], Python's slice: a negative k counts from the end
PySliceAll(s, k) == s
PySlice(s, k) ==
    IF k >= 0 THEN SubSeq(s, 1, Min(k, Len(s)))
    ELSE SubSeq(s, 1, Max(0, Len(s) + k))

\* ------------------------------------------------- simple_keyword_search
PhraseBonus == 10

query_words(q) == split(lower(q))

text_words_no_lower(text) == split(text)
text_words(text) == split(lower(text))

overlap_symmetric_difference(qw, tw) == Cardinality((qw \ tw) \cup (tw \ qw))
word_overlap(qw, tw) == Cardinality(qw \cap tw)

\* the value of `overlap` when the loop body reaches `if overlap > 0`
overlap(q, chunk) ==
    LET base == word_overlap(query_words(q), text_words(chunk.text))
    IN  IF Contains(lower(q), lower(chunk.text)) THEN base + PhraseBonus ELSE base

\* scored_chunks after the loop: (overlap, chunk) of the chunks with overlap > 0
scored_chunks(q, chunks) ==
    SelectSeq([i \in 1..Len(chunks) |-> <<overlap(q, chunks[i]), chunks[i]>>],
              LAMBDA p : p[1] > 0)

\* one step of a stable descending insertion: x goes after every element
\* whose key is greater than or equal to its own
InsertDesc(sorted, x) ==
    LET n == Cardinality({i \in 1..Len(sorted) : sorted[i][1] >= x[1]})
    IN  SubSeq(sorted, 1, n) \o <<x>> \o SubSeq(sorted, n + 1, Len(sorted))

RECURSIVE StableSortDesc(_)
StableSortDesc(s) ==
    IF s = <<>> THEN <<>>
    ELSE InsertDesc(StableSortDesc(SubSeq(s, 1, Len(s) - 1)), s[Len(s)])

\* ascending stable sort read backwards: equal keys come out in reverse order
InsertAsc(sorted, x) ==
    LET n == Cardinality({i \in 1..Len(sorted) : sorted[i][1] <= x[1]})
    IN  SubSeq(sorted, 1, n) \o <<x>> \o SubSeq(sorted, n + 1, Len(sorted))

RECURSIVE StableSortAsc(_)
StableSortAsc(s) ==
    IF s = <<>> THEN <<>>
    ELSE InsertAsc(StableSortAsc(SubSeq(s, 1, Len(s) - 1)), s[Len(s)])

sort_ascending_reversed(s) ==
    LET a == StableSortAsc(s) IN [i \in 1..Len(a) |-> a[Len(a) + 1 - i]]

\* scored_chunks.sort(reverse=True, key=lambda x: x[0]): stable, descending
sort_reverse(s) == StableSortDesc(s)

simple_keyword_search(q, chunks, k) ==
    LET top == PySlice(sort_reverse(scored_chunks(q, chunks)), k)
    IN  [i \in 1..Len(top) |-> top[i][2]]

\* ------------------------------------------------------- SpecSearch
Texts == StringsUpTo(TextAlphabet, MaxTextLen)
Queries == StringsUpTo(QueryAlphabet, MaxQueryLen)
TopKs == (-1)..MaxTopK

\* a chunk handed directly to the search: its text is the input
SearchChunks == [text : Texts, page : {1}, source : {"A"}]
SearchPools == UNION {[1..n -> SearchChunks] : n \in 0..MaxPool}

InitSearch ==
    /\ op = "init"
    /\ query \in Queries
    /\ pool \in SearchPools
    /\ top_k = 0
    /\ scores = <<>>
    /\ result = <<>>
    /\ SearchFrameIdle

SimpleKeywordSearch ==
    /\ op = "init"
    /\ \E k \in TopKs :
        /\ top_k' = k
        /\ result' = simple_keyword_search(query, pool, k)
    /\ scores' = [i \in 1..Len(pool) |-> overlap(query, pool[i])]
    /\ op' = "simple_keyword_search"
    /\ UNCHANGED <<query, pool, SearchFrame>>

NextSearch == SimpleKeywordSearch

SpecSearch == InitSearch /\ [][NextSearch]_vars

\* ---------------------------------------------------- claims on the ranker
Occurrences(s, c) == Cardinality({i \in 1..Len(s) : s[i] = c})

\* the pool's positions with a positive score
Kept == {i \in 1..Len(pool) : overlap(query, pool[i]) > 0}

\* rank of position i among the kept ones: behind every kept chunk with a
\* greater score and every earlier kept chunk with the same score
RankOf(i) ==
    1 + Cardinality({j \in Kept :
            \/ overlap(query, pool[j]) > overlap(query, pool[i])
            \/ (overlap(query, pool[j]) = overlap(query, pool[i]) /\ j < i)})

ReferenceRanking ==
    [n \in 1..Min(top_k, Cardinality(Kept)) |->
        pool[CHOOSE i \in Kept : RankOf(i) = n]]

\* C1 as stated: for any top_k and any non-empty pool the search returns at
\* most top_k chunks, all from the pool, none of them twice.
C1_AsStated ==
    (op = "simple_keyword_search" /\ pool # <<>>) =>
        /\ Len(result) <= top_k
        /\ \A i \in 1..Len(result) : result[i] \in Range(pool)
        /\ \A i, j \in 1..Len(result) : i # j => result[i] # result[j]

\* C1 (amended): for any query, any non-empty pool and any top_k >= 0 the
\* search returns at most top_k chunks, every returned chunk is an element of
\* the pool, and no chunk is returned more often than it occurs in the pool
\* (so none twice when the pool's chunks are pairwise different).
C1_AtMostTopKFromPool ==
    (op = "simple_keyword_search" /\ pool # <<>> /\ top_k >= 0) =>
        /\ Len(result) <= top_k
        /\ \A i \in 1..Len(result) : result[i] \in Range(pool)
        /\ \A c \in Range(result) : Occurrences(result, c) <= Occurrences(pool, c)

\* the cut at top_k happened: more chunks scored than were returned
C1_Witness ==
    /\ op = "simple_keyword_search"
    /\ top_k >= 1
    /\ Len(result) = top_k
    /\ Cardinality(Kept) > top_k

\* C2 as stated: for every query, a chunk whose text equals the query
\* (case-insensitively) scores strictly more than a chunk sharing no token
\* with the query.
C2_AsStated ==
    op = "simple_keyword_search" =>
        \A i, j \in 1..Len(pool) :
            (/\ lower(pool[i].text) = lower(query)
             /\ split(lower(query)) \cap split(lower(pool[j].text)) = {})
            => scores[i] > scores[j]

\* C2 (amended): for every query holding at least one token, a chunk whose
\* text equals the query (case-insensitively) scores strictly more than a
\* chunk sharing no token with the query.
C2_PhraseBonusDominates ==
    (op = "simple_keyword_search" /\ split(lower(query)) # {}) =>
        \A i, j \in 1..Len(pool) :
            (/\ lower(pool[i].text) = lower(query)
             /\ split(lower(query)) \cap split(lower(pool[j].text)) = {})
            => scores[i] > scores[j]

\* an exact match next to a chunk that shares no token but still earns the
\* phrase bonus (the query is a substring of it)
C2_Witness ==
    /\ op = "simple_keyword_search"
    /\ split(lower(query)) # {}
    /\ \E i, j \in 1..Len(pool) :
        /\ lower(pool[i].text) = lower(query)
        /\ split(lower(query)) \cap split(lower(pool[j].text)) = {}
        /\ scores[j] = PhraseBonus
        /\ scores[i] > scores[j]

\* C9: for top_k >= 0 the result is the reference ranking (chunks with a
\* positive score, by score descending, equal scores in input order, cut at
\* top_k); no returned chunk scores 0 and no higher score follows a lower one.
C9_ReferenceRanking ==
    (op = "simple_keyword_search" /\ top_k >= 0) =>
        /\ result = ReferenceRanking
        /\ \A i \in 1..Len(result) : overlap(query, result[i]) > 0
        /\ \A i, j \in 1..Len(result) :
            i < j => overlap(query, result[i]) >= overlap(query, result[j])

\* a tie kept in input order, behind a chunk that was moved in front of both
C9_WitnessTie ==
    /\ op = "simple_keyword_search"
    /\ Len(result) >= 2
    /\ result[1] # result[2]
    /\ overlap(query, result[1]) = overlap(query, result[2])

\* a reordering: the second chunk of the pool scores higher and comes first,
\* and a chunk with score 0 was dropped
C9_Witness ==
    /\ op = "simple_keyword_search"
    /\ Len(pool) >= 2
    /\ Len(result) >= 2
    /\ result[1] = pool[2]
    /\ result[2] = pool[1]
    /\ overlap(query, pool[2]) > overlap(query, pool[1])

\* ------------------------------------------------------- SpecInsert
\* Scoring of one chunk before and after one more query token is put into
\* its text (lines 36-48 run on both texts).
InsertStrings(alphabet) == StringsUpTo(alphabet, MaxInsertLen)

\* text with `tok` put in after its first i characters, set off by sep1, sep2
Inserted(text, i, sep1, tok, sep2) ==
    SubSeq(text, 1, i) \o sep1 \o tok \o sep2 \o SubSeq(text, i + 1, Len(text))

InitInsert ==
    /\ op = "init"
    /\ query \in InsertStrings(QueryAlphabet)
    /\ base_text \in InsertStrings(TextAlphabet)
    /\ new_text = <<>>
    /\ base_score = 0
    /\ new_score = 0
    /\ InsertFrameIdle

\* the token is a query token (after lower()), the insertion adds it as a
\* token of its own and removes none of the text's tokens
InsertToken ==
    /\ op = "init"
    /\ \E tok \in InsertStrings(TextAlphabet) \ {<<>>}, i \in 0..Len(base_text),
          sep1 \in {<<>>, <<" ">>}, sep2 \in {<<>>, <<" ">>} :
        /\ \A n \in 1..Len(tok) : ~IsSpace(tok[n])
        /\ lower(tok) \in query_words(query)
        /\ split(Inserted(base_text, i, sep1, tok, sep2)) = split(base_text) \cup {tok}
        /\ new_text' = Inserted(base_text, i, sep1, tok, sep2)
        /\ new_score' = overlap(query, [text |-> Inserted(base_text, i, sep1, tok, sep2),
                                         page |-> 1, source |-> "A"])
    /\ base_score' = overlap(query, [text |-> base_text, page |-> 1, source |-> "A"])
    /\ op' = "insert_token"
    /\ UNCHANGED <<query, base_text, InsertFrame>>

NextInsert == InsertToken

SpecInsert == InitInsert /\ [][NextInsert]_vars

\* C3 as stated: putting one more query token into a chunk's text never
\* lowers the chunk's score.
C3_AsStated ==
    op = "insert_token" => new_score >= base_score

\* C3 (amended): putting one more query token into a chunk's text never
\* lowers the score unless the insertion breaks a phrase match (the lowercase
\* query was a substring of the text and no longer is), and then the score
\* drops by at most the phrase bonus of 10.
C3_MonotonicUpToPhraseBonus ==
    op = "insert_token" =>
        new_score >= base_score -
            (IF /\ Contains(lower(query), lower(base_text))
                /\ ~Contains(lower(query), lower(new_text))
             THEN PhraseBonus ELSE 0)

\* both cases: an insertion that raised the score by a new shared token ...
C3_WitnessRaised ==
    /\ op = "insert_token"
    /\ ~Contains(lower(query), lower(new_text))
    /\ new_score = base_score + 1

\* ... and one that broke the phrase match and cost exactly the bonus
C3_Witness ==
    /\ op = "insert_token"
    /\ Contains(lower(query), lower(base_text))
    /\ ~Contains(lower(query), lower(new_text))
    /\ new_score = base_score - PhraseBonus

\* ------------------------------------- extract_text_from_pdf, load_pdf
\* what page.extract_text() gives for one page: None, or a text
NonePage == [is_none |-> TRUE, text |-> <<>>]
TextPage(t) == [is_none |-> FALSE, text |-> t]
PageResults == {NonePage} \cup {TextPage(t) : t \in Texts}

\* a stored upload: save_uploaded_file gives every upload its own file name
FileStems == <<"p1", "p2">>
UploadPath(n) == [dir |-> <<".", "data", "uploads">>, stem |-> FileStems[n], ext |-> ".pdf"]

\* os.path.basename: the file name, as (stem, extension)
basename(path) == <<path.stem, path.ext>>

\* page.extract_text() or ""
text_or_empty(p) == IF p.is_none THEN <<>> ELSE p.text

\* i + 1 for enumerate's index i
page_number_zero_based(i) == i
page_number(i) == i + 1

\* PdfReader raises on an unreadable file and the except branch returns []
extract_text_from_pdf(d) ==
    IF ~d.readable THEN <<>>
    ELSE SelectSeq(
            [k \in 1..Len(d.pages) |->
                [text |-> text_or_empty(d.pages[k]),
                 page |-> page_number(k - 1),
                 source |-> basename(d.file_path)]],
            LAMBDA c : strip_nonempty(c.text))

load_pdf(d) ==
    IF ~d.readable THEN <<>>
    ELSE SelectSeq(
            [k \in 1..Len(d.pages) |->
                [page |-> page_number(k - 1),
                 text |-> text_or_empty(d.pages[k])]],
            LAMBDA c : strip_nonempty(c.text))

\* ------------------------------------------------------- SpecExtract
PageLists(choices) == UNION {[1..n -> choices] : n \in 0..MaxPages}

ExtractDocs == [file_path : {UploadPath(1)}, readable : BOOLEAN, pages : PageLists(PageResults)]

InitExtract ==
    /\ op = "init"
    /\ doc \in ExtractDocs
    /\ ran = {}
    /\ extracted = <<>>
    /\ loaded = <<>>
    /\ ExtractFrameIdle

ExtractTextFromPdf ==
    /\ "extract_text_from_pdf" \notin ran
    /\ extracted' = extract_text_from_pdf(doc)
    /\ ran' = ran \cup {"extract_text_from_pdf"}
    /\ op' = "extract_text_from_pdf"
    /\ UNCHANGED <<doc, loaded, ExtractFrame>>

LoadPdf ==
    /\ "load_pdf" \notin ran
    /\ loaded' = load_pdf(doc)
    /\ ran' = ran \cup {"load_pdf"}
    /\ op' = "load_pdf"
    /\ UNCHANGED <<doc, extracted, ExtractFrame>>

NextExtract == ExtractTextFromPdf \/ LoadPdf

SpecExtract == InitExtract /\ [][NextExtract]_vars

\* the 1-based positions of the document's pages that hold a non-blank text
NonBlankPages(d) ==
    {k \in 1..Len(d.pages) :
        /\ ~d.pages[k].is_none
        /\ \E n \in 1..Len(d.pages[k].text) : d.pages[k].text[n] # " "}

\* one chunk per non-blank page: as many chunks as such pages, their page
\* numbers strictly increasing and exactly those pages' positions, each with
\* its page's text
OneChunkPerNonBlankPage(chunks, d) ==
    /\ Len(chunks) = Cardinality(NonBlankPages(d))
    /\ {chunks[i].page : i \in 1..Len(chunks)} = NonBlankPages(d)
    /\ \A i, j \in 1..Len(chunks) : i < j => chunks[i].page < chunks[j].page
    /\ \A i \in 1..Len(chunks) : chunks[i].text = d.pages[chunks[i].page].text

\* C6: for a readable document extract_text_from_pdf and load_pdf emit exactly
\* one chunk per non-blank page and none for blank pages, with strictly
\* increasing 1-based page numbers (gaps exactly at the blank pages).
C6_OneChunkPerNonBlankPage ==
    /\ ("extract_text_from_pdf" \in ran /\ doc.readable)
            => OneChunkPerNonBlankPage(extracted, doc)
    /\ ("load_pdf" \in ran /\ doc.readable)
            => OneChunkPerNonBlankPage(loaded, doc)

\* both functions have read a document whose first page is blank and whose
\* second is not: one chunk, numbered 2
C6_Witness ==
    /\ ran = {"extract_text_from_pdf", "load_pdf"}
    /\ doc.readable
    /\ Len(doc.pages) >= 2
    /\ NonBlankPages(doc) = {2}
    /\ Len(extracted) = 1 /\ extracted[1].page = 2
    /\ Len(loaded) = 1 /\ loaded[1].page = 2

\* ----------------------------------------- retrieve_from_multiple_pdfs
\* the placeholder returned when no PDF yields a chunk; its text is one
\* opaque literal and its source a name without extension
NoContentChunk ==
    [text |-> <<"No document content available.">>, page |-> 0, source |-> <<"System", "">>]

\* all_chunks after `for pdf in pdfs: all_chunks.extend(...)`
RECURSIVE extend_all(_)
extend_all(ps) ==
    IF ps = <<>> THEN <<>>
    ELSE extend_all(SubSeq(ps, 1, Len(ps) - 1)) \o extract_text_from_pdf(ps[Len(ps)])

\* `if not relevant_chunks: relevant_chunks = all_chunks[:top_k]`
fallback_missing(relevant_chunks, chunks, k) == relevant_chunks
fallback(relevant_chunks, chunks, k) ==
    IF relevant_chunks = <<>> THEN PySlice(chunks, k) ELSE relevant_chunks

retrieve_from_multiple_pdfs(q, ps, k) ==
    IF extend_all(ps) = <<>> THEN <<NoContentChunk>>
    ELSE fallback(simple_keyword_search(q, extend_all(ps), k), extend_all(ps), k)

\* ------------------------------------------------------- SpecRetrieve
\* pages of the files pooled for retrieval: no text, or an unbroken word
RetrievePages == {NonePage, TextPage(<<"A">>), TextPage(<<"A", "A">>)}
PdfCounts == 0..Len(FileStems)

\* the k-th row's file is the k-th upload; an unreadable file has no pages to read
RetrieveDocs(k) ==
    [file_path : {UploadPath(k)}, readable : {TRUE}, pages : PageLists(RetrievePages)]
        \cup {[file_path |-> UploadPath(k), readable |-> FALSE, pages |-> <<>>]}

InitRetrieve ==
    /\ op = "init"
    /\ query \in Queries
    /\ \E n \in PdfCounts :
        /\ pdfs \in [1..n -> UNION {RetrieveDocs(k) : k \in 1..n}]
        /\ \A k \in 1..n : pdfs[k] \in RetrieveDocs(k)
    /\ all_chunks = <<>>
    /\ top_k = 0
    /\ result = <<>>
    /\ RetrieveFrameIdle

RetrieveFromMultiplePdfs ==
    /\ op = "init"
    /\ \E k \in TopKs :
        /\ top_k' = k
        /\ result' = retrieve_from_multiple_pdfs(query, pdfs, k)
    /\ all_chunks' = extend_all(pdfs)
    /\ op' = "retrieve_from_multiple_pdfs"
    /\ UNCHANGED <<query, pdfs, RetrieveFrame>>

NextRetrieve == RetrieveFromMultiplePdfs

SpecRetrieve == InitRetrieve /\ [][NextRetrieve]_vars

\* (file, page) of every non-blank page of every readable file
PoolKeys ==
    UNION {{<<d, k>> : k \in IF pdfs[d].readable THEN NonBlankPages(pdfs[d]) ELSE {}} :
            d \in 1..Len(pdfs)}

KeyBefore(a, b) == a[1] < b[1] \/ (a[1] = b[1] /\ a[2] < b[2])

\* the pool in pooling order: files in input order, pages in page order
ExpectedPool ==
    [n \in 1..Cardinality(PoolKeys) |->
        LET key == CHOOSE c \in PoolKeys :
                        Cardinality({b \in PoolKeys : KeyBefore(b, c)}) = n - 1
        IN  [text |-> pdfs[key[1]].pages[key[2]].text,
             page |-> key[2],
             source |-> <<pdfs[key[1]].file_path.stem, pdfs[key[1]].file_path.ext>>]]

\* no chunk of the pool shares a token with the query or contains it
NoChunkMatches ==
    \A i \in 1..Len(all_chunks) :
        /\ split(lower(query)) \cap split(lower(all_chunks[i].text)) = {}
        /\ ~Contains(lower(query), lower(all_chunks[i].text))

\* C4 as stated: for any top_k, when the pool is not empty and no chunk
\* matches, the first top_k chunks of the pool are returned in pooling
\* order, and the result is never empty.
C4_AsStated ==
    (op = "retrieve_from_multiple_pdfs" /\ all_chunks # <<>> /\ NoChunkMatches) =>
        /\ all_chunks = ExpectedPool
        /\ result = SubSeq(all_chunks, 1, Min(top_k, Len(all_chunks)))
        /\ result # <<>>

\* C4 (amended): for any top_k >= 1, when the pool is not empty and no
\* chunk matches, the first top_k chunks of the pool are returned in pooling
\* order (files in input order, pages in page order), and the result is not
\* empty.
C4_FallbackFirstTopK ==
    (op = "retrieve_from_multiple_pdfs" /\ top_k >= 1 /\ all_chunks # <<>> /\ NoChunkMatches) =>
        /\ all_chunks = ExpectedPool
        /\ result = SubSeq(all_chunks, 1, Min(top_k, Len(all_chunks)))
        /\ result # <<>>

\* the fallback cut a pool drawn from two files, a blank page skipped
C4_Witness ==
    /\ op = "retrieve_from_multiple_pdfs"
    /\ top_k >= 1
    /\ NoChunkMatches
    /\ Len(all_chunks) > top_k
    /\ Len(result) = top_k
    /\ \E i, j \in 1..Len(all_chunks) : all_chunks[i].source # all_chunks[j].source
    /\ \E i \in 1..Len(all_chunks) : all_chunks[i].page > 1

\* ------------------------------------------------------------ database.py
\* Optional[...]: None is the empty sequence, a value x is <<x>>
None == <<>>
Some(x) == <<x>>

\* how a call ends: it returns a value, or an exception leaves it
Returned(v) == [raised |-> "", value |-> v]
Raised(e) == [raised |-> e, value |-> None]

\* get_db opens the connection and sets no PRAGMA: SQLite leaves
\* foreign-key enforcement off on a new connection
foreign_keys == FALSE

\* holders of the write lock other than a running caller: nobody, or a
\* connection that was dropped unclosed with its transaction open and is
\* not yet finalized by the garbage collector
Free == 0
Garbage == -1

GoogleIds == {"g1", "g2"}
Emails == {"e1", "e2"}
Usernames == {"u1", "u2"}

CreateUserArgs ==
    [google_id : GoogleIds, email : Emails, name : {"n"}, username : Usernames,
     organization : {"org"}, research_interests : {""}]

\* the ids create_user can hand out, and one more that never exists
UserIdArgs == 1..(Cardinality(GoogleIds) + 1)

Roles == {"user"}
Contents == {"m1", "m2"}

RowIds(table) == {table[i].id : i \in 1..Len(table)}

\* the UNIQUE columns of users: INSERT raises sqlite3.IntegrityError when a
\* row already holds the google_id, the email or the username
unique_violation(table, a) ==
    \E i \in 1..Len(table) :
        \/ table[i].google_id = a.google_id
        \/ table[i].email = a.email
        \/ table[i].username = a.username

\* the row INSERT INTO users writes: id from AUTOINCREMENT, created_at by default
user_row(id, a) ==
    [id |-> id, google_id |-> a.google_id, email |-> a.email, name |-> a.name,
     username |-> a.username, organization |-> a.organization,
     research_interests |-> a.research_interests, created_at |-> "CURRENT_TIMESTAMP"]

\* SELECT * FROM users WHERE id = ?; fetchone()
get_user_by_id(table, user_id) ==
    IF \E i \in 1..Len(table) : table[i].id = user_id
    THEN Some(table[CHOOSE i \in 1..Len(table) : table[i].id = user_id])
    ELSE None

\* a statement that writes waits for the write lock for the connection's
\* timeout (sqlite3.connect's default, 5 s) and then raises OperationalError;
\* a dropped connection gives the lock back only when it is finalized
database_is_locked == write_lock = Garbage

InitStore ==
    /\ op = "init"
    /\ users = <<>>
    /\ chat_history = <<>>
    /\ uploaded_pdfs = <<>>
    /\ seq = [users |-> 0, chat_history |-> 0, uploaded_pdfs |-> 0]
    /\ args = <<>>
    /\ ret = Returned(None)
    /\ clock = 0
    /\ write_lock = Free
    /\ StoreFrameIdle

\* create_user. The INSERT takes the write lock inside the transaction that
\* sqlite3 opens for it. On a UNIQUE violation it raises IntegrityError: the
\* except branch returns None, and conn, never closed, keeps its transaction
\* and the lock. Otherwise the row is committed, the connection closed and
\* the row read back by its lastrowid. OperationalError is not caught.
CreateUser ==
    \E a \in CreateUserArgs :
        /\ args' = a
        /\ op' = "create_user"
        /\ IF database_is_locked
           THEN /\ ret' = Raised("sqlite3.OperationalError")
                /\ UNCHANGED <<users, seq, write_lock>>
           ELSE IF unique_violation(users, a)
           THEN /\ ret' = Returned(None)
                /\ write_lock' = Garbage
                /\ UNCHANGED <<users, seq>>
           ELSE /\ users' = Append(users, user_row(seq.users + 1, a))
                /\ seq' = [seq EXCEPT !.users = seq.users + 1]
                /\ ret' = Returned(get_user_by_id(users', seq.users + 1))
                /\ UNCHANGED write_lock
        /\ UNCHANGED <<chat_history, uploaded_pdfs, clock, StoreFrame>>

\* the garbage collector finalizes the dropped connection: its transaction
\* is rolled back and the lock released
CollectGarbage ==
    /\ write_lock = Garbage
    /\ write_lock' = Free
    /\ UNCHANGED <<op, users, chat_history, uploaded_pdfs, seq, args, ret, clock, StoreFrame>>

\* add_chat_message: one INSERT, committed, its timestamp CURRENT_TIMESTAMP by
\* default; with foreign keys enforced an unknown user_id would raise
\* IntegrityError and insert nothing
AddChatMessage ==
    \E user_id \in UserIdArgs, role \in Roles, content \in Contents :
        /\ seq.chat_history < MaxRows
        /\ args' = [user_id |-> user_id, role |-> role, content |-> content, citations |-> ""]
        /\ op' = "add_chat_message"
        /\ IF database_is_locked
           THEN /\ ret' = Raised("sqlite3.OperationalError")
                /\ UNCHANGED <<chat_history, seq>>
           ELSE IF foreign_keys /\ user_id \notin RowIds(users)
           THEN /\ ret' = Raised("sqlite3.IntegrityError")
                /\ UNCHANGED <<chat_history, seq>>
           ELSE /\ chat_history' = Append(chat_history,
                        [id |-> seq.chat_history + 1, user_id |-> user_id, role |-> role,
                         content |-> content, citations |-> "", timestamp |-> clock])
                /\ seq' = [seq EXCEPT !.chat_history = seq.chat_history + 1]
                /\ ret' = Returned(None)
        /\ UNCHANGED <<users, uploaded_pdfs, write_lock, clock, StoreFrame>>

\* clear_chat_history: DELETE FROM chat_history WHERE user_id = ?
ClearChatHistory ==
    \E user_id \in UserIdArgs :
        /\ args' = [user_id |-> user_id]
        /\ op' = "clear_chat_history"
        /\ IF database_is_locked
           THEN /\ ret' = Raised("sqlite3.OperationalError")
                /\ UNCHANGED chat_history
           ELSE /\ chat_history' = SelectSeq(chat_history, LAMBDA r : r.user_id # user_id)
                /\ ret' = Returned(None)
        /\ UNCHANGED <<users, uploaded_pdfs, seq, write_lock, clock, StoreFrame>>

\* add_uploaded_pdf: one INSERT, committed
AddUploadedPdf ==
    \E user_id \in UserIdArgs :
        /\ seq.uploaded_pdfs < MaxRows
        /\ args' = [user_id |-> user_id, filename |-> "f.pdf"]
        /\ op' = "add_uploaded_pdf"
        /\ IF database_is_locked
           THEN /\ ret' = Raised("sqlite3.OperationalError")
                /\ UNCHANGED <<uploaded_pdfs, seq>>
           ELSE IF foreign_keys /\ user_id \notin RowIds(users)
           THEN /\ ret' = Raised("sqlite3.IntegrityError")
                /\ UNCHANGED <<uploaded_pdfs, seq>>
           ELSE /\ uploaded_pdfs' = Append(uploaded_pdfs,
                        [id |-> seq.uploaded_pdfs + 1, user_id |-> user_id,
                         filename |-> "f.pdf"])
                /\ seq' = [seq EXCEPT !.uploaded_pdfs = seq.uploaded_pdfs + 1]
                /\ ret' = Returned(None)
        /\ UNCHANGED <<users, chat_history, write_lock, clock, StoreFrame>>

\* delete_pdf: DELETE FROM uploaded_pdfs WHERE id = ?
DeletePdf ==
    \E pdf_id \in 1..MaxRows :
        /\ args' = [pdf_id |-> pdf_id]
        /\ op' = "delete_pdf"
        /\ IF database_is_locked
           THEN /\ ret' = Raised("sqlite3.OperationalError")
                /\ UNCHANGED uploaded_pdfs
           ELSE /\ uploaded_pdfs' = SelectSeq(uploaded_pdfs, LAMBDA r : r.id # pdf_id)
                /\ ret' = Returned(None)
        /\ UNCHANGED <<users, chat_history, seq, write_lock, clock, StoreFrame>>

\* the `limit` arguments: a negative one, none, some, all and more
LimitArgs == (-1)..(MaxRows + 1)

\* WHERE user_id = ?, over the table in rowid order
where_user_id(rows, user_id) == SelectSeq(rows, LAMBDA r : r.user_id = user_id)

\* ORDER BY timestamp ASC: rows with the same timestamp stay in the order
\* the scan met them
InsertByTimestamp(sorted, r) ==
    LET n == Cardinality({i \in 1..Len(sorted) : sorted[i].timestamp <= r.timestamp})
    IN  SubSeq(sorted, 1, n) \o <<r>> \o SubSeq(sorted, n + 1, Len(sorted))

RECURSIVE order_by_timestamp(_)
order_by_timestamp(rows) ==
    IF rows = <<>> THEN <<>>
    ELSE InsertByTimestamp(order_by_timestamp(SubSeq(rows, 1, Len(rows) - 1)), rows[Len(rows)])

\* LIMIT ?: a negative limit is no limit
sql_limit_none(rows, limit) == rows
sql_limit(rows, limit) ==
    IF limit < 0 THEN rows ELSE SubSeq(rows, 1, Min(limit, Len(rows)))

\* dict(row) of SELECT role, content, citations, timestamp
chat_dict(r) ==
    [role |-> r.role, content |-> r.content, citations |-> r.citations,
     timestamp |-> r.timestamp]

get_chat_history(table, user_id, limit) ==
    LET rows == sql_limit(order_by_timestamp(where_user_id(table, user_id)), limit)
    IN  [i \in 1..Len(rows) |-> chat_dict(rows[i])]

\* get_chat_history: a read, which the write lock does not hold up
GetChatHistory ==
    \E user_id \in UserIdArgs, limit \in LimitArgs :
        /\ args' = [user_id |-> user_id, limit |-> limit]
        /\ op' = "get_chat_history"
        /\ ret' = Returned(get_chat_history(chat_history, user_id, limit))
        /\ UNCHANGED <<users, chat_history, uploaded_pdfs, seq, write_lock, clock, StoreFrame>>

\* a second passes on the database's clock
Tick ==
    /\ clock < MaxClock
    /\ clock' = clock + 1
    /\ UNCHANGED <<op, users, chat_history, uploaded_pdfs, seq, args, ret, write_lock,
                   StoreFrame>>

\* the store under the calls that write to it
Next ==
    \/ CreateUser
    \/ CollectGarbage
    \/ AddChatMessage
    \/ ClearChatHistory
    \/ AddUploadedPdf
    \/ DeletePdf

Spec == InitStore /\ [][Next]_vars

\* C5 as stated: create_user with a google_id that a stored user already has
\* returns None without raising and leaves the users table as it was: no row
\* added, no field of any row changed.
C5_DuplicateGoogleIdNotCreated ==
    [][(/\ op' = "create_user"
        /\ \E i \in 1..Len(users) : users[i].google_id = args'.google_id)
       => (ret' = Returned(None) /\ users' = users)]_vars

\* the part of C5 the code keeps: a call with a stored google_id never
\* changes the users table and never returns a user
C5_TableUnchanged ==
    [][(/\ op' = "create_user"
        /\ \E i \in 1..Len(users) : users[i].google_id = args'.google_id)
       => (ret'.value = None /\ users' = users)]_vars

\* C7 as stated: every chat_history row and every uploaded_pdfs row has the
\* id of an existing users row as its user_id.
C7_ForeignKeys ==
    /\ \A i \in 1..Len(chat_history) : chat_history[i].user_id \in RowIds(users)
    /\ \A i \in 1..Len(uploaded_pdfs) : uploaded_pdfs[i].user_id \in RowIds(users)

\* the UNIQUE columns hold in every state of the store
UsersUnique ==
    \A i, j \in 1..Len(users) :
        i # j => /\ users[i].google_id # users[j].google_id
                 /\ users[i].email # users[j].email
                 /\ users[i].username # users[j].username
                 /\ users[i].id # users[j].id


\* ------------------------------------------------ llm_agent.py, ingest.py
\* an f-string: the template and the values formatted into it, a str and a
\* character sequence ("" and <<>> where the template has no such field)
Str(template, name, text) == [template |-> template, name |-> name, text |-> text]

\* str(n) of a natural number
Digits == <<"0", "1", "2", "3", "4", "5", "6", "7", "8", "9">>
RECURSIVE str_int(_)
str_int(n) ==
    IF n < 10 THEN <<Digits[n + 1]>>
    ELSE str_int(n \div 10) \o <<Digits[(n % 10) + 1]>>

\* str.strip
RECURSIVE lstrip(_)
lstrip(s) == IF s # <<>> /\ IsSpace(Head(s)) THEN lstrip(Tail(s)) ELSE s
RECURSIVE rstrip(_)
rstrip(s) ==
    IF s # <<>> /\ IsSpace(s[Len(s)]) THEN rstrip(SubSeq(s, 1, Len(s) - 1)) ELSE s
strip(s) == rstrip(lstrip(s))

\* s[k:] for a negative k: the last -k characters
PySliceFrom(s, k) == SubSeq(s, Max(1, Len(s) + k + 1), Len(s))

\* os.path.splitext(os.path.basename(path))[0]
pdf_name(path) == basename(path)[1]

\* extract_document_text: "Page {n}:\n{text}\n\n" for every page, stripped
RECURSIVE page_blocks(_)
page_blocks(pages) ==
    IF pages = <<>> THEN <<>>
    ELSE <<"P", "a", "g", "e", " ">> \o str_int(pages[1].page) \o <<":", "\n">>
            \o pages[1].text \o <<"\n", "\n">> \o page_blocks(Tail(pages))
extract_document_text(pages) == strip(page_blocks(pages))

\* what the remote model does in one call: the client is built and answers,
\* ChatGroq(...) raises, or llm.invoke raises
LlmFaults == {"none", "construct", "invoke"}

\* str(e) of the exception llm.invoke raised
ErrorText == "e"

\* response.content
ReplyContents == {<<"A">>, <<" ", "A", " ">>}

max_chars == 20000
PreviewChars == 300
ContextChunks == 8

\* summarize_document's text_to_summarize
text_to_summarize(full_text) ==
    IF Len(full_text) > max_chars
    THEN PySlice(full_text, max_chars \div 2)
            \o <<"\n", "\n", "[", ".", ".", ".", "]", "\n", "\n">>
            \o PySliceFrom(full_text, -(max_chars \div 2))
    ELSE full_text

summarize_prompt(full_text) == Str("summarize", "", text_to_summarize(full_text))

\* summarize_document: get_llm() is called before the try, so an exception
\* from the constructor leaves the function; the try covers llm.invoke only
summarize_document(full_text, fault, reply) ==
    IF fault = "construct" THEN Raised("get_llm")
    ELSE IF fault = "invoke"
    THEN Returned(Str("Summary generation failed: {}", ErrorText, <<>>))
    ELSE Returned(Str("{}", "", strip(reply)))

\* ingest_pdf's except branch
fallback_summary(path, pages) ==
    Str("Document: {}. Preview: {}...", pdf_name(path), PySlice(pages[1].text, PreviewChars))

\* ingest_pdf: (chunks_count, pages_count, summary, pdf_name)
ingest_pdf(d, fault, reply) ==
    LET pages == load_pdf(d)
        summary == summarize_document(extract_document_text(pages), fault, reply)
    IN  IF pages = <<>> THEN Raised("ValueError")
        ELSE Returned([chunks_count |-> Len(pages),
                       pages_count |-> Len(pages),
                       summary |-> IF summary.raised # ""
                                   THEN fallback_summary(d.file_path, pages)
                                   ELSE summary.value,
                       pdf_name |-> pdf_name(d.file_path)])

\* answer_with_context's prompt: the first 8 chunks, then the question
answer_prompt(question, chunks) ==
    [template |-> "answer",
     context |-> PySlice(chunks, ContextChunks),
     question |-> question]

\* answer_with_context: get_llm() before the try, llm.invoke inside it
answer_with_context(question, chunks, fault, reply) ==
    IF fault = "construct" THEN Raised("get_llm")
    ELSE IF fault = "invoke"
    THEN Returned(Str("Error generating response: {}", ErrorText, <<>>))
    ELSE Returned(Str("{}", "", reply))

InitLLM ==
    /\ op = "init"
    /\ doc \in ExtractDocs
    /\ llm_fault = "none"
    /\ prompt = <<>>
    /\ outcome = Returned(None)
    /\ LlmFrameIdle

IngestPdf ==
    \E fault \in LlmFaults, reply \in ReplyContents :
        /\ op' = "ingest_pdf"
        /\ llm_fault' = fault
        /\ prompt' = IF load_pdf(doc) # <<>> /\ fault # "construct"
                     THEN <<summarize_prompt(extract_document_text(load_pdf(doc)))>>
                     ELSE <<>>
        /\ outcome' = ingest_pdf(doc, fault, reply)
        /\ UNCHANGED <<doc, LlmFrame>>

AnswerWithContext ==
    \E question \in Queries, fault \in LlmFaults, reply \in ReplyContents :
        /\ op' = "answer_with_context"
        /\ llm_fault' = fault
        /\ prompt' = IF fault # "construct"
                     THEN <<answer_prompt(question, extract_text_from_pdf(doc))>>
                     ELSE <<>>
        /\ outcome' = answer_with_context(question, extract_text_from_pdf(doc), fault, reply)
        /\ UNCHANGED <<doc, LlmFrame>>

NextLLM == IngestPdf \/ AnswerWithContext

SpecLLM == InitLLM /\ [][NextLLM]_vars

\* C8 as stated: when the remote model step fails, at the constructor or at
\* the invocation, ingest_pdf of a document with text returns with the local
\* fallback preview as its summary, and answer_with_context returns the
\* formatted error string; neither raises.
C8_RemoteFailureNeverPropagates ==
    /\ (op = "ingest_pdf" /\ llm_fault # "none" /\ load_pdf(doc) # <<>>)
        => /\ outcome.raised = ""
           /\ outcome.value.summary = fallback_summary(doc.file_path, load_pdf(doc))
    /\ (op = "answer_with_context" /\ llm_fault # "none")
        => /\ outcome.raised = ""
           /\ outcome.value = Str("Error generating response: {}", ErrorText, <<>>)

\* the two halves of C8 the code keeps
C8_IngestPdfReturns ==
    (op = "ingest_pdf" /\ load_pdf(doc) # <<>>)
        => /\ outcome.raised = ""
           /\ llm_fault = "construct"
                => outcome.value.summary = fallback_summary(doc.file_path, load_pdf(doc))
C8_InvokeFailureFormatted ==
    (op = "answer_with_context" /\ llm_fault = "invoke")
        => outcome = Returned(Str("Error generating response: {}", ErrorText, <<>>))


\* --------------------------------------- create_user, concurrent callers
\* every caller runs create_user once, on its own connection
Callers == 1..NumCallers

\* a caller's position in create_user: before the INSERT, between the INSERT
\* and conn.commit(), between conn.close() and get_user_by_id, returned
CallerPcs == {"execute", "commit", "get_user_by_id", "done"}

InitConcurrent ==
    /\ op = "init"
    /\ calls \in [Callers -> [args : CreateUserArgs, pc : {"execute"},
                              user_id : {0}, ret : {Returned(None)}]]
    /\ users = <<>>
    /\ seq = [users |-> 0, chat_history |-> 0, uploaded_pdfs |-> 0]
    /\ write_lock = Free
    /\ ConcFrameIdle

\* cursor.execute(INSERT): the statement takes the write lock. A row that
\* breaks a UNIQUE column raises IntegrityError: the except branch returns
\* None and the connection, not closed, keeps the lock. Otherwise the row
\* waits in the caller's transaction under the next AUTOINCREMENT id.
Execute(c) ==
    /\ calls[c].pc = "execute"
    /\ write_lock = Free
    /\ op' = "create_user"
    /\ IF unique_violation(users, calls[c].args)
       THEN /\ calls' = [calls EXCEPT ![c].pc = "done", ![c].ret = Returned(None)]
            /\ write_lock' = Garbage
       ELSE /\ calls' = [calls EXCEPT ![c].pc = "commit", ![c].user_id = seq.users + 1]
            /\ write_lock' = c
    /\ UNCHANGED <<users, seq, ConcFrame>>

\* cursor.execute(INSERT) while a dropped connection holds the lock: the
\* wait ends with OperationalError, which create_user does not catch
ExecuteLocked(c) ==
    /\ calls[c].pc = "execute"
    /\ database_is_locked
    /\ op' = "create_user"
    /\ calls' = [calls EXCEPT ![c].pc = "done",
                              ![c].ret = Raised("sqlite3.OperationalError")]
    /\ UNCHANGED <<users, seq, write_lock, ConcFrame>>

\* conn.commit(); user_id = cursor.lastrowid; conn.close()
Commit(c) ==
    /\ calls[c].pc = "commit"
    /\ write_lock = c
    /\ op' = "create_user"
    /\ users' = Append(users, user_row(calls[c].user_id, calls[c].args))
    /\ seq' = [seq EXCEPT !.users = calls[c].user_id]
    /\ write_lock' = Free
    /\ calls' = [calls EXCEPT ![c].pc = "get_user_by_id"]
    /\ UNCHANGED ConcFrame

\* return get_user_by_id(user_id)
GetUserById(c) ==
    /\ calls[c].pc = "get_user_by_id"
    /\ op' = "create_user"
    /\ calls' = [calls EXCEPT ![c].pc = "done",
                              ![c].ret = Returned(get_user_by_id(users, calls[c].user_id))]
    /\ UNCHANGED <<users, seq, write_lock, ConcFrame>>

NextConcurrent ==
    \/ \E c \in Callers : Execute(c)
    \/ \E c \in Callers : ExecuteLocked(c)
    \/ \E c \in Callers : Commit(c)
    \/ \E c \in Callers : GetUserById(c)
    \/ CollectGarbage

SpecConcurrent == InitConcurrent /\ [][NextConcurrent]_vars

\* two calls collide: they share a google_id, an email or a username
Collide(a, b) ==
    \/ a.google_id = b.google_id
    \/ a.email = b.email
    \/ a.username = b.username

\* C10 as stated: no two rows of users share a google_id, an email or a
\* username, and of two calls that collide at most one returns a user
\* record and the other returns None.
C10_ConcurrentCreateUser ==
    /\ UsersUnique
    /\ \A c, d \in DOMAIN calls :
        (/\ c # d
         /\ calls[c].pc = "done"
         /\ calls[d].pc = "done"
         /\ Collide(calls[c].args, calls[d].args))
        => /\ calls[c].ret.raised = ""
           /\ calls[d].ret.raised = ""
           /\ calls[c].ret.value = None \/ calls[d].ret.value = None

\* the part of C10 the code keeps: the UNIQUE columns hold, and of two
\* calls that collide at most one returns a user record
C10_AtMostOneRecord ==
    /\ UsersUnique
    /\ \A c, d \in DOMAIN calls :
        (c # d /\ Collide(calls[c].args, calls[d].args))
        => calls[c].ret.value = None \/ calls[d].ret.value = None


\* ------------------------------------------------ utils.cleanup_old_files
\* days in seconds
SecondsPerDay == 86400

\* time.time() at the call, and the modification times around every cutoff
\* the call can compute: one second before it, on it, one second after it
Nows == {MaxDays * SecondsPerDay, MaxDays * SecondsPerDay + 1}
DaysArgs == 0..MaxDays
MTimes == {d * SecondsPerDay + o : d \in 0..MaxDays, o \in {-1, 0, 1}}

\* an entry of the upload directory: a regular file or a sub-directory, its
\* modification time, and whether os.remove on it succeeds
DirEntries(name) ==
    [name : {name}, kind : {"file", "dir"}, mtime : MTimes, removable : BOOLEAN]
Listings == UNION {{l \in [1..n -> UNION {DirEntries(k) : k \in 1..n}] :
                        \A k \in 1..n : l[k].name = k} : n \in 0..MaxFiles}

\* cutoff = now - (days * 86400)
cutoff(now, days) == now - (days * SecondsPerDay)

\* os.path.isfile(filepath)
isfile(f) == f.kind = "file"

\* file_time < cutoff
is_old(file_time, c) == file_time < c

\* the except branch around os.remove: the error is printed and the loop
\* goes on with the entries that are left
sweep_stops(rest, swept_rest) == rest
sweep_goes_on(rest, swept_rest) == swept_rest

\* the loop over os.listdir(UPLOAD_DIR): what is left of the entries
RECURSIVE sweep_entries(_, _)
sweep_entries(entries, c) ==
    IF entries = <<>> THEN <<>>
    ELSE LET f == Head(entries)
             rest == Tail(entries)
         IN  IF isfile(f) /\ is_old(f.mtime, c)
             THEN IF f.removable
                  THEN sweep_entries(rest, c)
                  ELSE <<f>> \o sweep_goes_on(rest, sweep_entries(rest, c))
             ELSE <<f>> \o sweep_entries(rest, c)

\* cleanup_old_files: nothing to do when the directory is missing
cleanup_old_files(dir, now, days) ==
    IF ~dir.exists THEN dir
    ELSE [dir EXCEPT !.entries = sweep_entries(dir.entries, cutoff(now, days))]

InitCleanup ==
    /\ op = "init"
    /\ upload_dir \in {[exists |-> FALSE, entries |-> <<>>]}
                        \cup [exists : {TRUE}, entries : Listings]
    /\ sweep = <<>>
    /\ CleanupFrameIdle

CleanupOldFiles ==
    \E now \in Nows, days \in DaysArgs :
        /\ op' = "cleanup_old_files"
        /\ sweep' = [now |-> now, days |-> days, listing |-> upload_dir.entries]
        /\ upload_dir' = cleanup_old_files(upload_dir, now, days)
        /\ UNCHANGED CleanupFrame

NextCleanup == CleanupOldFiles

SpecCleanup == InitCleanup /\ [][NextCleanup]_vars

\* C11: when cleanup_old_files has returned, every regular file that was
\* older than the cutoff and whose removal did not fail is gone, a failed
\* removal stopped nothing, and every entry modified at or after the cutoff
\* is still there as it was; the sweep creates nothing.
C11_SweepCompletes ==
    op = "cleanup_old_files" =>
        LET c == cutoff(sweep.now, sweep.days)
            before == Range(sweep.listing)
            after == Range(upload_dir.entries)
        IN  /\ after \subseteq before
            /\ \A f \in before :
                /\ (isfile(f) /\ f.mtime < c /\ f.removable) => f \notin after
                /\ f.mtime >= c => f \in after

\* a sweep in which the removal of one old file failed and an old file
\* listed after it was removed
C11_Witness ==
    /\ op = "cleanup_old_files"
    /\ \E i, j \in 1..Len(sweep.listing) :
        /\ i < j
        /\ isfile(sweep.listing[i]) /\ isfile(sweep.listing[j])
        /\ sweep.listing[i].mtime < cutoff(sweep.now, sweep.days)
        /\ sweep.listing[j].mtime < cutoff(sweep.now, sweep.days)
        /\ ~sweep.listing[i].removable
        /\ sweep.listing[j].removable
        /\ sweep.listing[i] \in Range(upload_dir.entries)
        /\ sweep.listing[j] \notin Range(upload_dir.entries)


\* ------------------------------------------- chat history, read back
\* add_chat_message and clear_chat_history for any users, as the clock
\* runs, and get_chat_history reading the table in between
NextChat ==
    \/ AddChatMessage
    \/ ClearChatHistory
    \/ GetChatHistory
    \/ Tick

SpecChat == InitStore /\ [][NextChat]_vars


\* the rowid-order positions of u's messages in the table, and the k-th of them
MessagesOf(table, u) == {i \in 1..Len(table) : table[i].user_id = u}
KthMessageOf(table, u, k) ==
    CHOOSE i \in MessagesOf(table, u) :
        Cardinality({j \in MessagesOf(table, u) : j < i}) = k - 1

\* what a read of u's history with this limit has returned: `count` messages,
\* the k-th of them u's k-th message in the table, none out of time order
ReturnsFirst(count) ==
    /\ ret.raised = ""
    /\ Len(ret.value) = count
    /\ \A k \in 1..Len(ret.value) :
        LET m == chat_history[KthMessageOf(chat_history, args.user_id, k)]
        IN  /\ ret.value[k].content = m.content
            /\ ret.value[k].role = m.role
            /\ ret.value[k].timestamp = m.timestamp
    /\ \A k \in 1..(Len(ret.value) - 1) :
        ret.value[k].timestamp <= ret.value[k + 1].timestamp

\* add_chat_message puts its message after every row of the table, rows
\* appended later carry larger ids and no earlier timestamps, and
\* clear_chat_history(u) leaves no message of u
AppendedAndCleared ==
    /\ (op = "add_chat_message" /\ ret.raised = "") =>
        /\ chat_history # <<>>
        /\ chat_history[Len(chat_history)].user_id = args.user_id
        /\ chat_history[Len(chat_history)].content = args.content
    /\ \A i, j \in 1..Len(chat_history) :
        i < j => /\ chat_history[i].id < chat_history[j].id
                 /\ chat_history[i].timestamp <= chat_history[j].timestamp
                 /\ chat_history[j].timestamp <= clock
    /\ (op = "clear_chat_history" /\ ret.raised = "") =>
        MessagesOf(chat_history, args.user_id) = {}

\* a step leaves the messages of every user but the one it clears in place
OthersKept ==
    \A u \in UserIdArgs :
        (op' = "clear_chat_history" /\ u # args'.user_id) =>
            where_user_id(chat_history', u) = where_user_id(chat_history, u)

====
